---- MODULE Spec2Model ----
(***************************************************************************)
(* resize-magnetic-ebs-volume: the promise pipeline                        *)
(*   getStoppedInstance -> getSingleVolumeAttachedTo ->                    *)
(*   checkVolumeSizeSmallerThan -> detachVolumeFrom -> resizeVolume        *)
(*   (createSnapshot, createVolumeFromSnapshot) -> attachToInstance        *)
(* with its poll engine pollUntil, in both published variants of the       *)
(* script (availability zone inferred from the instance, or given on the   *)
(* command line), run against a model of the EC2 control plane (Spec,      *)
(* FairSpec) or against the bundled stub of the EC2 client (StubSpec).      *)
(* Times are milliseconds, as in the script.  The script reads the clock   *)
(* only inside pollUntil and only to subtract the poll's start time from   *)
(* it, so the clock is re-based to StartClock whenever a poll starts: a    *)
(* poll's behaviour does not depend on when it started.                    *)
(***************************************************************************)
EXTENDS Integers, Sequences, FiniteSets, TLC

VARIABLES
    variant,            \* which of the two scripts runs: "inferred" or "explicit"
    availabilityZone,   \* argv['availability-zone'] (explicit variant; "-" otherwise)
    desiredSizeGB,      \* argv['to-size']
    omitAttachments,    \* the control plane reports volumes without their attachments
    run,                \* which invocation of the script this is: 1, or 2 for a repeat
    instanceState,      \* remote: power state of the target instance
    instanceZone,       \* remote: placement of the target instance
    volumes,            \* remote: volume id -> volume
    snapshots,          \* remote: snapshot id -> snapshot
    pending,            \* remote: the detach or attach request still in progress, or NoCall
    stub,               \* the bundled EC2 stub's module state (NoStub when it is not in use)
    pc,                 \* the pipeline stage in flight
    phase,              \* position within the stage: "call", "probe" or "delay"
    instance,           \* result of getStoppedInstance
    ctx,                \* { volume, device } threaded through the stages
    snapshot,           \* the snapshot handed to createVolumeFromSnapshot
    startTime,          \* pollUntil: start of the running poll (0 when none)
    timeoutMs,          \* pollUntil: budget of the running poll
    message,            \* pollUntil: the resource the running poll waits for
    attempts,           \* probes (describe calls) invoked by the running poll
    failed,             \* probes of the running poll that answered without success
    outstanding,        \* probes invoked and not yet answered
    adapterFailed,      \* an adapter call of this run has rejected
    lastElapsed,        \* elapsed computed by the latest probe handler of the running poll
    firstProbeAt,       \* clock at the first probe invocation of the running poll
    clock,              \* (new Date()).valueOf(), re-based at the start of each poll
    slow,               \* slow probes still allowed in this run
    calls,              \* the mutating adapter calls issued, in order
    observed,           \* <<resource id, state>> pairs seen by successful polls
    error,              \* the rejection travelling down the chain ("none" if none)
    exitCode            \* process exit code (-1 while running)

vars == <<variant, availabilityZone, desiredSizeGB, omitAttachments, run, instanceState,
          instanceZone, volumes, snapshots, pending, stub, pc, phase, instance, ctx,
          snapshot, startTime, timeoutMs, message, attempts, failed, outstanding,
          adapterFailed, lastElapsed, firstProbeAt, clock, slow, calls, observed,
          error, exitCode>>

----------------------------------------------------------------------------
(* Bounds of the model *)

MaxSize == 2        \* volume sizes and target sizes range over 1..MaxSize
MaxSlow == 1        \* at most this many probes of a run take Lag ms to answer
Lag == 1000         \* duration of a slow probe
StartClock == 1000  \* wall clock at the first probe of a poll

Zones == {"za", "zb"}
Sizes == 1..MaxSize
Latencies == {0, Lag}

targetInstanceId == "i-target"
SourceId == "vol-source"
OtherId == "vol-other"
NewId == "vol-new"
SnapId == "snap-created"
VolumeOrder == <<SourceId, OtherId, NewId>>

NoCall == [op |-> "none"]
NoVolume == [VolumeId |-> "-"]
NoSnapshot == [SnapshotId |-> "-"]
NoInstance == [instanceId |-> "-", availabilityZone |-> "-"]
NoCtx == [volume |-> NoVolume, device |-> "-"]
NoStub == [on |-> FALSE]

----------------------------------------------------------------------------
(* Program constants *)

POLL_DELAY == 5 * 1000
DetachTimeoutMs == 1 * 60 * 1000
SnapshotTimeoutMs == 15 * 60 * 1000
CreateTimeoutMs == 1 * 60 * 1000
AttachTimeoutMs == 2 * 60 * 1000

\* a || b on numbers: 0 (and undefined, modelled as 0) are falsy
OrElse(a, b) == IF a # 0 THEN a ELSE b

----------------------------------------------------------------------------
(* The bundled stub of the EC2 client: how it answers the describe calls *)

StubZone == "uv-jupiter-2b"
StubDevice == "/dev/xvda1"
StubCreatedId == "vol-created"
StubSize == 8
StubCreatedSize == 25

\* describeVolumes without VolumeIds: the fixed source volume
StubSourceVolume ==
    [VolumeId |-> SourceId,
     VolumeType |-> "standard",
     Size |-> StubSize,
     State |-> "available",
     AvailabilityZone |-> StubZone,
     Attachments |-> <<[Device |-> StubDevice]>>]

\* describeVolumes with VolumeIds: [volumeId]
StubVolume(volumeId) ==
    [VolumeId |-> volumeId,
     VolumeType |-> IF volumeId = StubCreatedId THEN "gp2" ELSE "standard",
     Size |-> IF volumeId = StubCreatedId THEN StubCreatedSize ELSE StubSize,
     State |-> IF stub.volumeAttached THEN "in-use" ELSE "available",
     AvailabilityZone |-> StubZone,
     Attachments |-> IF stub.volumeAttached THEN <<[Device |-> StubDevice]>> ELSE <<>>]

\* describeSnapshots: the answer built before snapCompleted is set
StubSnapshot(snapshotId) ==
    [SnapshotId |-> snapshotId,
     VolumeId |-> SourceId,
     State |-> IF stub.snapCompleted THEN "completed" ELSE "pending"]

\* the stub resolves every call; the control plane may reject one
AdapterAnswers == IF stub.on THEN {TRUE} ELSE BOOLEAN

----------------------------------------------------------------------------
(* The control plane: how it answers the describe calls *)

Attachment(dev) == [Device |-> dev, InstanceId |-> targetInstanceId]

\* the volume as a describeVolumes response reports it
Reported(id) ==
    [VolumeId |-> id,
     VolumeType |-> volumes[id].VolumeType,
     Size |-> volumes[id].Size,
     State |-> volumes[id].State,
     AvailabilityZone |-> volumes[id].AvailabilityZone,
     Attachments |-> IF omitAttachments THEN <<>> ELSE volumes[id].Attachments]

AttachedTo(id, instanceId) ==
    \E i \in 1..Len(volumes[id].Attachments) :
        volumes[id].Attachments[i].InstanceId = instanceId

RECURSIVE CollectVolumes(_, _, _)
CollectVolumes(i, instanceId, zone) ==
    IF i > Len(VolumeOrder) THEN <<>>
    ELSE LET id == VolumeOrder[i]
             rest == CollectVolumes(i + 1, instanceId, zone)
         IN  IF /\ id \in DOMAIN volumes
                /\ AttachedTo(id, instanceId)
                /\ volumes[id].AvailabilityZone = zone
             THEN <<Reported(id)>> \o rest
             ELSE rest

\* describeVolumes with the filters attachment.instance-id and availability-zone
describeVolumesByFilter(instanceId, zone) ==
    IF stub.on THEN <<StubSourceVolume>> ELSE CollectVolumes(1, instanceId, zone)

\* describeVolumes with VolumeIds: [volumeId]
describeVolumesById(volumeId) ==
    IF stub.on THEN <<StubVolume(volumeId)>>
    ELSE IF volumeId \in DOMAIN volumes THEN <<Reported(volumeId)>> ELSE <<>>

\* describeSnapshots with SnapshotIds: [snapshotId]
describeSnapshotsById(snapshotId) ==
    IF stub.on THEN <<StubSnapshot(snapshotId)>>
    ELSE IF snapshotId \in DOMAIN snapshots THEN <<snapshots[snapshotId]>> ELSE <<>>

\* describeInstances with InstanceIds and the instance-state-name filter
\* (and, in the explicit variant, the availability-zone filter)
describeInstances(instanceId) ==
    IF stub.on THEN <<[InstanceId |-> instanceId, AvailabilityZone |-> StubZone]>>
    ELSE IF /\ instanceState = "stopped"
            /\ (variant = "explicit" => instanceZone = availabilityZone)
    THEN <<[InstanceId |-> instanceId, AvailabilityZone |-> instanceZone]>>
    ELSE <<>>

----------------------------------------------------------------------------
(* Pure functions of the script *)

\* getStoppedInstance's handler: the instance of the first reservation, or the
\* not-found error when the filters matched nothing
getStoppedInstanceResult(Reservations) ==
    IF Reservations = <<>>
    THEN [err |-> "NotFound", instance |-> NoInstance]
    ELSE [err |-> "none",
          instance |-> [instanceId |-> Head(Reservations).InstanceId,
                        availabilityZone |-> Head(Reservations).AvailabilityZone]]

\* variant of IsStandard: the type check commented out
IsStandard_Any(VolumeType) == TRUE

IsStandard(VolumeType) == VolumeType = "standard"

\* variant of getSingleVolume: looks for the attachment before the type
getSingleVolume_AttachmentsFirst(Volumes) ==
    IF Len(Volumes) > 1
    THEN [err |-> "MultipleVolumes", ctx |-> NoCtx]
    ELSE IF Volumes = <<>>
    THEN [err |-> "NoVolume", ctx |-> NoCtx]
    ELSE IF Head(Volumes).Attachments = <<>>
    THEN [err |-> "NoAttachment", ctx |-> NoCtx]
    ELSE IF ~IsStandard(Head(Volumes).VolumeType)
    THEN [err |-> "UnsupportedType", ctx |-> NoCtx]
    ELSE [err |-> "none",
          ctx |-> [volume |-> Head(Volumes),
                   device |-> Head(Head(Volumes).Attachments).Device]]

getSingleVolume(Volumes) ==
    IF Len(Volumes) > 1
    THEN [err |-> "MultipleVolumes", ctx |-> NoCtx]
    ELSE IF Volumes = <<>>
    THEN [err |-> "NoVolume", ctx |-> NoCtx]
    ELSE IF ~IsStandard(Head(Volumes).VolumeType)
    THEN [err |-> "UnsupportedType", ctx |-> NoCtx]
    ELSE IF Head(Volumes).Attachments = <<>>
    THEN [err |-> "NoAttachment", ctx |-> NoCtx]
    ELSE [err |-> "none",
          ctx |-> [volume |-> Head(Volumes),
                   device |-> Head(Head(Volumes).Attachments).Device]]

\* variant of SizeRejected: the comparison the wrong way round
SizeRejected_Reversed(Size, sizeGB) == sizeGB > Size

\* the condition under which checkVolumeSizeSmallerThan(sizeGB) throws
SizeRejected(Size, sizeGB) == Size > sizeGB

\* variant of volumeIsInState: reports success whatever the state
volumeIsInState_NoWait(volumeId, desiredState) ==
    LET Volumes == describeVolumesById(volumeId)
    IN  IF Volumes = <<>>
        THEN [threw |-> TRUE, success |-> FALSE, result |-> NoVolume]
        ELSE [threw |-> FALSE, success |-> TRUE, result |-> Head(Volumes)]

volumeIsInState(volumeId, desiredState) ==
    LET Volumes == describeVolumesById(volumeId)
    IN  IF Volumes = <<>>
        THEN [threw |-> TRUE, success |-> FALSE, result |-> NoVolume]
        ELSE [threw |-> FALSE,
              success |-> Head(Volumes).State = desiredState,
              result |-> Head(Volumes)]

snapshotIsComplete(snapshotId) ==
    LET Snapshots == describeSnapshotsById(snapshotId)
    IN  IF Snapshots = <<>>
        THEN [threw |-> TRUE, success |-> FALSE, result |-> NoSnapshot]
        ELSE [threw |-> FALSE,
              success |-> Head(Snapshots).State = "completed",
              result |-> Head(Snapshots)]

\* variant of TimedOut: gives up as soon as the budget is reached
TimedOut_AtBudget(elapsed, budget) == elapsed >= budget

\* variant of TimedOut: gives up two polls late
TimedOut_Late(elapsed, budget) == elapsed > budget + 2 * POLL_DELAY

\* pollUntil's test after a probe that did not report success
TimedOut(elapsed, budget) == elapsed > budget

\* the elapsed time pollUntil computes in the probe's handler
Elapsed(now, start) == now - OrElse(start, now)

\* the start time pollUntil hands to its retry
RetryStart(start, now) == OrElse(start, now)

\* request parameters of the four mutating calls
detachVolumeParams(c, instanceId) ==
    [op |-> "detachVolume", VolumeId |-> c.volume.VolumeId, InstanceId |-> instanceId]

createSnapshotParams(c) ==
    [op |-> "createSnapshot", VolumeId |-> c.volume.VolumeId]

\* variant of createVolumeParams: asks for a volume of the source's type
createVolumeParams_Standard(sizeGB, AvailabilityZone, snap) ==
    [op |-> "createVolume", SnapshotId |-> snap.SnapshotId,
     AvailabilityZone |-> AvailabilityZone, VolumeType |-> "standard", Size |-> sizeGB]

\* variant of createVolumeParams: places the volume in the zone of the command line
createVolumeParams_ArgZone(sizeGB, AvailabilityZone, snap) ==
    [op |-> "createVolume", SnapshotId |-> snap.SnapshotId,
     AvailabilityZone |-> availabilityZone, VolumeType |-> "gp2", Size |-> sizeGB]

createVolumeParams(sizeGB, AvailabilityZone, snap) ==
    [op |-> "createVolume", SnapshotId |-> snap.SnapshotId,
     AvailabilityZone |-> AvailabilityZone, VolumeType |-> "gp2", Size |-> sizeGB]

attachVolumeParams(c, instanceId) ==
    [op |-> "attachVolume", VolumeId |-> c.volume.VolumeId, Device |-> c.device,
     InstanceId |-> instanceId]

\* variant of resizedCtx: takes the device from the created volume's attachments
resizedCtx_Recomputed(createdVolume, device) ==
    [volume |-> createdVolume,
     device |-> IF createdVolume.Attachments = <<>> THEN "-"
                ELSE Head(createdVolume.Attachments).Device]

\* the context resizeVolume resolves with
resizedCtx(createdVolume, device) == [volume |-> createdVolume, device |-> device]

\* the promise chain: the stage that runs when `stage` resolves
NextStage(stage) ==
    CASE stage = "getStoppedInstance" -> "getSingleVolumeAttachedTo"
      [] stage = "getSingleVolumeAttachedTo" -> "checkVolumeSizeSmallerThan"
      [] stage = "checkVolumeSizeSmallerThan" -> "detachVolumeFrom"
      [] stage = "detachVolumeFrom" -> "resizeVolume"
      [] stage = "resizeVolume" -> "createVolumeFromSnapshot"
      [] stage = "createVolumeFromSnapshot" -> "attachToInstance"
      [] stage = "attachToInstance" -> "onFulfilled"

\* variant of DesiredState: the detach stage does not wait for the volume to
\* be released
DesiredState_NoDetachWait(stage) ==
    CASE stage = "detachVolumeFrom" -> "in-use"
      [] stage = "resizeVolume" -> "completed"
      [] stage = "createVolumeFromSnapshot" -> "available"
      [] stage = "attachToInstance" -> "in-use"

\* the state each stage's poll waits for
DesiredState(stage) ==
    CASE stage = "detachVolumeFrom" -> "available"
      [] stage = "resizeVolume" -> "completed"
      [] stage = "createVolumeFromSnapshot" -> "available"
      [] stage = "attachToInstance" -> "in-use"

\* the probe of the poll running in `stage`, on the resource `id`
Probe(stage, id) ==
    IF stage = "resizeVolume"
    THEN snapshotIsComplete(id)
    ELSE volumeIsInState(id, DesiredState(stage))

\* exit code of the terminal handlers
SuccessExitCode == 0
FailureExitCode == 1

\* whether the fulfilment handler itself throws: the explicit-zone script logs
\* an identifier `instance` that is declared nowhere
SuccessHandlerThrows(v) == v = "explicit"

----------------------------------------------------------------------------
(* Initial states *)

SourceVolume(type, size, atts, zone) ==
    [VolumeType |-> type, Size |-> size, State |-> "in-use",
     AvailabilityZone |-> zone, Attachments |-> atts]

\* the attachment lists a source volume starts with
InitialAttachments ==
    {<<Attachment("/dev/sda1")>>,
     <<Attachment("/dev/xvda1"), Attachment("/dev/sda1")>>}

NoVolumes == [id \in {} |-> NoVolume]

InitialVolumes(zone) ==
    {NoVolumes}
    \cup {(SourceId :> SourceVolume(t, s, a, zone)) :
              t \in {"standard", "gp2"}, s \in Sizes, a \in InitialAttachments}
    \cup {(SourceId :> SourceVolume(t, s, a, zone))
            @@ (OtherId :> SourceVolume("standard", 1,
                                        <<Attachment("/dev/sdf")>>, zone)) :
              t \in {"standard", "gp2"}, s \in Sizes, a \in InitialAttachments}

\* the script before its first call
ProgramInit ==
    /\ pc = "getStoppedInstance"
    /\ phase = "call"
    /\ instance = NoInstance
    /\ ctx = NoCtx
    /\ snapshot = NoSnapshot
    /\ startTime = 0
    /\ timeoutMs = 0
    /\ message = "-"
    /\ attempts = 0
    /\ failed = 0
    /\ outstanding = 0
    /\ adapterFailed = FALSE
    /\ lastElapsed = 0
    /\ firstProbeAt = 0
    /\ clock = StartClock
    /\ slow = MaxSlow
    /\ calls = <<>>
    /\ observed = {}
    /\ error = "none"
    /\ exitCode = -1

Init ==
    /\ variant \in {"inferred", "explicit"}
    /\ availabilityZone \in (IF variant = "explicit" THEN Zones ELSE {"-"})
    /\ desiredSizeGB \in Sizes
    /\ omitAttachments \in BOOLEAN
    /\ run = 1
    /\ instanceState \in {"stopped", "running"}
    /\ instanceZone \in Zones
    /\ \E zone \in Zones : volumes \in InitialVolumes(zone)
    /\ snapshots = [id \in {} |-> NoSnapshot]
    /\ pending = NoCall
    /\ stub = NoStub
    /\ ProgramInit

----------------------------------------------------------------------------
(* Building blocks of the actions *)

remoteVars == <<instanceState, instanceZone, volumes, snapshots, pending, stub>>
argVars == <<variant, availabilityZone, desiredSizeGB, omitAttachments, run>>
pollVars == <<startTime, timeoutMs, message, attempts, failed, outstanding,
              lastElapsed, firstProbeAt>>

\* a handler throws, or an adapter call rejects: the chain skips to its .catch
Throw(err) ==
    /\ pc' = "onRejected"
    /\ phase' = "call"
    /\ error' = err
    /\ UNCHANGED adapterFailed

\* an adapter call rejects: the promise chain built on it rejects with its error
AdapterRejects ==
    /\ pc' = "onRejected"
    /\ phase' = "call"
    /\ error' = "AdapterError"
    /\ adapterFailed' = TRUE

\* pollUntil(operation, message, timeoutMs) is called: start is undefined, and
\* the first probe is invoked at once
StartPoll(id, budget) ==
    /\ clock' = StartClock
    /\ startTime' = OrElse(0, clock')
    /\ timeoutMs' = budget
    /\ message' = id
    /\ attempts' = 1
    /\ failed' = 0
    /\ outstanding' = 1
    /\ lastElapsed' = 0
    /\ firstProbeAt' = clock'
    /\ phase' = "probe"
    /\ UNCHANGED <<pc, error, adapterFailed>>

\* what a stage resolves with when its poll succeeds with `result`
Resolve(stage, result) ==
    /\ pc' = NextStage(stage)
    /\ phase' = "call"
    /\ ctx' = IF stage = "createVolumeFromSnapshot"
              THEN resizedCtx(result, ctx.device)
              ELSE IF stage = "attachToInstance"
              THEN [volume |-> result, device |-> ctx.device]
              ELSE ctx
    /\ snapshot' = IF stage = "resizeVolume" THEN result ELSE snapshot
    /\ observed' = observed \cup {<<message, result.State>>}
    /\ UNCHANGED <<error, adapterFailed>>

\* the remote side may finish a transition at any moment of the poll on it
CanComplete == phase \in {"probe", "delay"}

----------------------------------------------------------------------------
(* Validation stages *)

GetStoppedInstance ==
    /\ pc = "getStoppedInstance"
    /\ \E ok \in AdapterAnswers :
         IF ~ok
         THEN AdapterRejects /\ UNCHANGED instance
         ELSE LET r == getStoppedInstanceResult(describeInstances(targetInstanceId))
              IN  IF r.err # "none"
                  THEN Throw(r.err) /\ UNCHANGED instance
                  ELSE /\ instance' = r.instance
                       /\ pc' = NextStage(pc)
                       /\ UNCHANGED <<phase, error, adapterFailed>>
    /\ UNCHANGED <<argVars, remoteVars, pollVars, ctx, snapshot, clock, slow,
                   calls, observed, exitCode>>

GetSingleVolumeAttachedTo ==
    /\ pc = "getSingleVolumeAttachedTo"
    /\ \E ok \in AdapterAnswers :
         IF ~ok
         THEN AdapterRejects /\ UNCHANGED ctx
         ELSE LET r == getSingleVolume(
                         describeVolumesByFilter(instance.instanceId,
                                                 instance.availabilityZone))
              IN  IF r.err # "none"
                  THEN Throw(r.err) /\ UNCHANGED ctx
                  ELSE /\ ctx' = r.ctx
                       /\ pc' = NextStage(pc)
                       /\ UNCHANGED <<phase, error, adapterFailed>>
    /\ UNCHANGED <<argVars, remoteVars, pollVars, instance, snapshot, clock, slow,
                   calls, observed, exitCode>>

CheckVolumeSizeSmallerThan ==
    /\ pc = "checkVolumeSizeSmallerThan"
    /\ IF SizeRejected(ctx.volume.Size, desiredSizeGB)
       THEN Throw("InvalidSize")
       ELSE /\ pc' = NextStage(pc)
            /\ UNCHANGED <<phase, error, adapterFailed>>
    /\ UNCHANGED <<argVars, remoteVars, pollVars, instance, ctx, snapshot, clock,
                   slow, calls, observed, exitCode>>

----------------------------------------------------------------------------
(* Mutating stages: the adapter call, then pollUntil on its outcome *)

\* what the control plane records when it accepts a mutating request
RemoteAccept(call) ==
    /\ stub' = IF stub.on /\ call.op = "attachVolume"
               THEN [stub EXCEPT !.volumeAttached = TRUE]
               ELSE stub
    /\ pending' = IF ~stub.on /\ call.op \in {"detachVolume", "attachVolume"}
                  THEN call ELSE pending
    /\ snapshots' = IF ~stub.on /\ call.op = "createSnapshot"
                    THEN (SnapId :> [SnapshotId |-> SnapId,
                                     VolumeId |-> call.VolumeId,
                                     State |-> "pending"]) @@ snapshots
                    ELSE snapshots
    /\ volumes' = IF ~stub.on /\ call.op = "createVolume"
                  THEN (NewId :> [VolumeType |-> call.VolumeType,
                                  Size |-> call.Size,
                                  State |-> "creating",
                                  AvailabilityZone |-> call.AvailabilityZone,
                                  Attachments |-> <<>>]) @@ volumes
                  ELSE volumes
    /\ instanceState' = IF call.op = "startInstances"
                        THEN "pending" ELSE instanceState
    /\ UNCHANGED instanceZone

\* EC2.<op>(params).promise().then(() => pollUntil(probe on id, ..., budget)):
\* the request is issued; if it is accepted the poll starts, if it rejects the
\* chain fails
IssueThenPoll(params, id, budget) ==
    /\ calls' = Append(calls, params)
    /\ \E ok \in AdapterAnswers :
         IF ok
         THEN /\ RemoteAccept(params)
              /\ StartPoll(id, budget)
         ELSE /\ AdapterRejects
              /\ UNCHANGED <<remoteVars, pollVars, clock>>
    /\ UNCHANGED <<argVars, instance, ctx, snapshot, slow, observed, exitCode>>

DetachVolumeFrom ==
    /\ pc = "detachVolumeFrom" /\ phase = "call"
    /\ IssueThenPoll(detachVolumeParams(ctx, targetInstanceId),
                     ctx.volume.VolumeId, DetachTimeoutMs)

ResizeVolume ==
    /\ pc = "resizeVolume" /\ phase = "call"
    /\ IssueThenPoll(createSnapshotParams(ctx), SnapId, SnapshotTimeoutMs)

CreateVolumeFromSnapshot ==
    /\ pc = "createVolumeFromSnapshot" /\ phase = "call"
    /\ IssueThenPoll(createVolumeParams(desiredSizeGB,
                                        ctx.volume.AvailabilityZone, snapshot),
                     NewId, CreateTimeoutMs)

AttachToInstance ==
    /\ pc = "attachToInstance" /\ phase = "call"
    /\ IssueThenPoll(attachVolumeParams(ctx, targetInstanceId),
                     ctx.volume.VolumeId, AttachTimeoutMs)

----------------------------------------------------------------------------
(* pollUntil *)

\* what answering the probe of `stage` changes on the remote side: the stub's
\* describeSnapshots sets snapCompleted once it has built its answer
ProbeEffect(stage) ==
    IF stub.on /\ stage = "resizeVolume"
    THEN [stub EXCEPT !.snapCompleted = TRUE]
    ELSE stub

\* variant of PollOutcome: looks at the budget before it looks at the answer
PollOutcome_TimeoutFirst(success, elapsed, budget) ==
    IF TimedOut(elapsed, budget) THEN "timeout"
    ELSE IF success THEN "resolve" ELSE "retry"

\* what pollUntil's handler does with a probe's answer
PollOutcome(success, elapsed, budget) ==
    IF ~success
    THEN IF TimedOut(elapsed, budget) THEN "timeout" ELSE "retry"
    ELSE "resolve"

\* variant of ProbeRejected: a rejected probe is tried again after the delay
ProbeRejected_Retries ==
    /\ phase' = "delay"
    /\ adapterFailed' = TRUE
    /\ UNCHANGED <<pc, error>>

\* the probe rejects: pollUntil attaches no rejection handler, so its promise
\* rejects with the probe's error
ProbeRejected == AdapterRejects

\* the pending probe answers (after lat ms) and pollUntil's handler runs
PollProbeReturns ==
    /\ phase = "probe"
    /\ outstanding' = outstanding - 1
    /\ stub' = ProbeEffect(pc)
    /\ \E ok \in AdapterAnswers, lat \in Latencies :
         /\ lat > 0 => slow > 0
         /\ slow' = IF lat > 0 THEN slow - 1 ELSE slow
         /\ clock' = clock + lat
         /\ IF ~ok
            THEN /\ ProbeRejected
                 /\ UNCHANGED <<ctx, snapshot, observed, lastElapsed, failed>>
            ELSE LET r == Probe(pc, message)
                     elapsed == Elapsed(clock', startTime)
                     outcome == PollOutcome(r.success, elapsed, timeoutMs)
                 IN  IF r.threw
                     THEN /\ Throw("TypeError")
                          /\ UNCHANGED <<ctx, snapshot, observed, lastElapsed, failed>>
                     ELSE /\ lastElapsed' = elapsed
                          /\ failed' = IF r.success THEN failed ELSE failed + 1
                          /\ CASE outcome = "timeout" ->
                                    /\ Throw("Timeout")
                                    /\ UNCHANGED <<ctx, snapshot, observed>>
                               [] outcome = "retry" ->
                                    /\ phase' = "delay"
                                    /\ UNCHANGED <<pc, error, adapterFailed, ctx,
                                                   snapshot, observed>>
                               [] outcome = "resolve" -> Resolve(pc, r.result)
    /\ UNCHANGED <<argVars, instanceState, instanceZone, volumes, snapshots,
                   pending, instance, startTime, timeoutMs, message, attempts,
                   firstProbeAt, calls, exitCode>>

\* variant of PollDelayElapses: the retry invokes the probe twice
PollDelayElapses_DoubleProbe ==
    /\ phase = "delay"
    /\ clock' = clock + POLL_DELAY
    /\ startTime' = OrElse(RetryStart(startTime, clock), clock')
    /\ attempts' = attempts + 2
    /\ outstanding' = outstanding + 2
    /\ phase' = "probe"
    /\ UNCHANGED <<argVars, remoteVars, pc, instance, ctx, snapshot, timeoutMs,
                   message, failed, lastElapsed, firstProbeAt, slow, calls, observed,
                   error, adapterFailed, exitCode>>

\* variant of PollDelayElapses: probes on a timer, whether or not the probe
\* before has answered
PollDelayElapses_OnTimer ==
    /\ phase \in {"probe", "delay"}
    /\ clock' = clock + POLL_DELAY
    /\ startTime' = OrElse(RetryStart(startTime, clock), clock')
    /\ attempts' = attempts + 1
    /\ outstanding' = outstanding + 1
    /\ phase' = "probe"
    /\ UNCHANGED <<argVars, remoteVars, pc, instance, ctx, snapshot, timeoutMs,
                   message, failed, lastElapsed, firstProbeAt, slow, calls, observed,
                   error, adapterFailed, exitCode>>

\* variant of PollDelayElapses: the retry issues the stage's request again
PollDelayElapses_Reissues ==
    /\ phase = "delay"
    /\ clock' = clock + POLL_DELAY
    /\ startTime' = OrElse(RetryStart(startTime, clock), clock')
    /\ attempts' = attempts + 1
    /\ outstanding' = outstanding + 1
    /\ phase' = "probe"
    /\ calls' = Append(calls, calls[Len(calls)])
    /\ UNCHANGED <<argVars, remoteVars, pc, instance, ctx, snapshot, timeoutMs,
                   message, failed, lastElapsed, firstProbeAt, slow, observed,
                   error, adapterFailed, exitCode>>

\* Promise.delay(POLL_DELAY) fires and pollUntil calls itself with
\* startTime || now, which invokes the next probe
PollDelayElapses ==
    /\ phase = "delay"
    /\ clock' = clock + POLL_DELAY
    /\ startTime' = OrElse(RetryStart(startTime, clock), clock')
    /\ attempts' = attempts + 1
    /\ outstanding' = outstanding + 1
    /\ phase' = "probe"
    /\ UNCHANGED <<argVars, remoteVars, pc, instance, ctx, snapshot, timeoutMs,
                   message, failed, lastElapsed, firstProbeAt, slow, calls, observed,
                   error, adapterFailed, exitCode>>

----------------------------------------------------------------------------
(* The control plane completes what was requested *)

progVars == <<argVars, pc, phase, instance, ctx, snapshot, pollVars, clock, slow,
              calls, observed, error, adapterFailed, exitCode>>

RemoteDetachCompletes ==
    /\ pc = "detachVolumeFrom" /\ CanComplete
    /\ pending.op = "detachVolume"
    /\ volumes' = [volumes EXCEPT ![pending.VolumeId].State = "available",
                                  ![pending.VolumeId].Attachments = <<>>]
    /\ pending' = NoCall
    /\ UNCHANGED <<progVars, stub, instanceState, instanceZone, snapshots>>

RemoteSnapshotCompletes ==
    /\ pc = "resizeVolume" /\ CanComplete
    /\ snapshots[SnapId].State = "pending"
    /\ snapshots' = [snapshots EXCEPT ![SnapId].State = "completed"]
    /\ UNCHANGED <<progVars, stub, instanceState, instanceZone, volumes, pending>>

RemoteVolumeCreated ==
    /\ pc = "createVolumeFromSnapshot" /\ CanComplete
    /\ volumes[NewId].State = "creating"
    /\ volumes' = [volumes EXCEPT ![NewId].State = "available"]
    /\ UNCHANGED <<progVars, stub, instanceState, instanceZone, snapshots, pending>>

RemoteAttachCompletes ==
    /\ pc = "attachToInstance" /\ CanComplete
    /\ pending.op = "attachVolume"
    /\ volumes' = [volumes EXCEPT
                     ![pending.VolumeId].State = "in-use",
                     ![pending.VolumeId].Attachments =
                         <<[Device |-> pending.Device,
                            InstanceId |-> pending.InstanceId]>>]
    /\ pending' = NoCall
    /\ UNCHANGED <<progVars, stub, instanceState, instanceZone, snapshots>>

----------------------------------------------------------------------------
(* Terminal handlers of the chain *)

\* variant of OnFulfilled: starts the instance once the volume is attached
OnFulfilled_StartsInstance ==
    /\ pc = "onFulfilled"
    /\ calls' = Append(calls, [op |-> "startInstances", InstanceId |-> targetInstanceId])
    /\ RemoteAccept([op |-> "startInstances", InstanceId |-> targetInstanceId])
    /\ exitCode' = 0
    /\ pc' = "exited"
    /\ UNCHANGED <<argVars, pollVars, phase, instance, ctx, snapshot, clock, slow, observed, error, adapterFailed>>

OnFulfilled ==
    /\ pc = "onFulfilled"
    /\ IF SuccessHandlerThrows(variant)
       THEN Throw("ReferenceError") /\ UNCHANGED exitCode
       ELSE /\ exitCode' = SuccessExitCode
            /\ pc' = "exited"
            /\ UNCHANGED <<phase, error, adapterFailed>>
    /\ UNCHANGED <<argVars, remoteVars, pollVars, instance, ctx, snapshot, clock,
                   slow, calls, observed>>

\* variant of OnRejected: puts the source volume back before exiting
OnRejected_Compensates ==
    /\ pc = "onRejected"
    /\ calls' = IF calls = <<>> THEN calls
                ELSE Append(calls, [op |-> "attachVolume", VolumeId |-> SourceId,
                                    Device |-> ctx.device,
                                    InstanceId |-> targetInstanceId])
    /\ exitCode' = 1
    /\ pc' = "exited"
    /\ UNCHANGED <<argVars, remoteVars, pollVars, phase, instance, ctx, snapshot,
                   clock, slow, observed, error, adapterFailed>>

\* variant of OnRejected: logs the error and leaves the exit to the runtime
OnRejected_NoExit ==
    /\ pc = "onRejected"
    /\ pc' = "exited"
    /\ UNCHANGED <<argVars, remoteVars, pollVars, phase, instance, ctx, snapshot,
                   clock, slow, calls, observed, error, adapterFailed, exitCode>>

OnRejected ==
    /\ pc = "onRejected"
    /\ exitCode' = FailureExitCode
    /\ pc' = "exited"
    /\ UNCHANGED <<argVars, remoteVars, pollVars, phase, instance, ctx, snapshot,
                   clock, slow, calls, observed, error, adapterFailed>>

----------------------------------------------------------------------------

Next ==
    \/ GetStoppedInstance
    \/ GetSingleVolumeAttachedTo
    \/ CheckVolumeSizeSmallerThan
    \/ DetachVolumeFrom
    \/ ResizeVolume
    \/ CreateVolumeFromSnapshot
    \/ AttachToInstance
    \/ PollProbeReturns
    \/ PollDelayElapses
    \/ RemoteDetachCompletes
    \/ RemoteSnapshotCompletes
    \/ RemoteVolumeCreated
    \/ RemoteAttachCompletes
    \/ OnFulfilled
    \/ OnRejected

Spec == Init /\ [][Next]_vars

\* the steps of the script: answers of adapter calls, timers firing, handlers
ScriptStep ==
    \/ GetStoppedInstance
    \/ GetSingleVolumeAttachedTo
    \/ CheckVolumeSizeSmallerThan
    \/ DetachVolumeFrom
    \/ ResizeVolume
    \/ CreateVolumeFromSnapshot
    \/ AttachToInstance
    \/ PollProbeReturns
    \/ PollDelayElapses
    \/ OnFulfilled
    \/ OnRejected

\* every adapter call is answered and every timer fires: the event loop runs
\* the script's next handler as long as there is one
FairSpec == Spec /\ WF_vars(ScriptStep)

----------------------------------------------------------------------------
(* The script invoked a second time on the instance it has just resized *)

\* the operator runs the command again, with the same instance (and zone) and
\* any target size, once the first run has attached the new volume; nothing is
\* carried over from the first process, the remote state is what it left
RunAgain ==
    /\ run = 1
    /\ pc = "exited"
    /\ <<NewId, "in-use">> \in observed
    /\ run' = 2
    /\ desiredSizeGB' \in Sizes
    /\ pc' = "getStoppedInstance"
    /\ phase' = "call"
    /\ instance' = NoInstance
    /\ ctx' = NoCtx
    /\ snapshot' = NoSnapshot
    /\ startTime' = 0
    /\ timeoutMs' = 0
    /\ message' = "-"
    /\ attempts' = 0
    /\ failed' = 0
    /\ outstanding' = 0
    /\ adapterFailed' = FALSE
    /\ lastElapsed' = 0
    /\ firstProbeAt' = 0
    /\ clock' = StartClock
    /\ slow' = MaxSlow
    /\ calls' = <<>>
    /\ observed' = {}
    /\ error' = "none"
    /\ exitCode' = -1
    /\ UNCHANGED <<variant, availabilityZone, omitAttachments, remoteVars>>

RepeatNext ==
    \/ GetStoppedInstance
    \/ GetSingleVolumeAttachedTo
    \/ CheckVolumeSizeSmallerThan
    \/ DetachVolumeFrom
    \/ ResizeVolume
    \/ CreateVolumeFromSnapshot
    \/ AttachToInstance
    \/ PollProbeReturns
    \/ PollDelayElapses
    \/ RemoteDetachCompletes
    \/ RemoteSnapshotCompletes
    \/ RemoteVolumeCreated
    \/ RemoteAttachCompletes
    \/ OnFulfilled
    \/ OnRejected
    \/ RunAgain

RepeatSpec == Init /\ [][RepeatNext]_vars

----------------------------------------------------------------------------
(* The script run against the bundled stub in place of the EC2 client *)

\* --to-size values tried against the stub's 8 GB source volume
StubTargets == {StubSize - 1, StubSize, StubCreatedSize}

StubInit ==
    /\ variant \in {"inferred", "explicit"}
    /\ availabilityZone \in (IF variant = "explicit" THEN {StubZone, "za"} ELSE {"-"})
    /\ desiredSizeGB \in StubTargets
    /\ omitAttachments = FALSE
    /\ run = 1
    /\ instanceState = "stopped"
    /\ instanceZone = StubZone
    /\ volumes = NoVolumes
    /\ snapshots = [id \in {} |-> NoSnapshot]
    /\ pending = NoCall
    /\ stub = [on |-> TRUE, snapCompleted |-> FALSE, volumeAttached |-> FALSE]
    /\ ProgramInit

\* the stub changes state only inside the calls made to it
StubNext ==
    \/ GetStoppedInstance
    \/ GetSingleVolumeAttachedTo
    \/ CheckVolumeSizeSmallerThan
    \/ DetachVolumeFrom
    \/ ResizeVolume
    \/ CreateVolumeFromSnapshot
    \/ AttachToInstance
    \/ PollProbeReturns
    \/ PollDelayElapses
    \/ OnFulfilled
    \/ OnRejected

StubSpec == StubInit /\ [][StubNext]_vars

TypeOK ==
    /\ pc \in {"getStoppedInstance", "getSingleVolumeAttachedTo",
               "checkVolumeSizeSmallerThan", "detachVolumeFrom", "resizeVolume",
               "createVolumeFromSnapshot", "attachToInstance", "onFulfilled",
               "onRejected", "exited"}
    /\ phase \in {"call", "probe", "delay"}
    /\ exitCode \in {-1, 0, 1}
    /\ slow \in 0..MaxSlow
    /\ clock >= StartClock
    /\ failed \in Nat
    /\ outstanding \in Nat
    /\ adapterFailed \in BOOLEAN
    /\ run \in {1, 2}

----------------------------------------------------------------------------
(* Vocabulary of the properties *)

ValidationErrors == {"NotFound", "MultipleVolumes", "NoVolume", "UnsupportedType",
                     "NoAttachment", "InvalidSize"}
StageErrors == ValidationErrors \cup {"Timeout", "AdapterError", "TypeError"}
PipelineOrder == <<"detachVolume", "createSnapshot", "createVolume", "attachVolume">>
ValidationStages == {"getStoppedInstance", "getSingleVolumeAttachedTo",
                     "checkVolumeSizeSmallerThan"}

Issued(op) == \E i \in 1..Len(calls) : calls[i].op = op

\* the run succeeded: the attach stage's poll saw the new volume in use
Succeeded == <<NewId, "in-use">> \in observed

\* the remote state is one a validator has to reject
MustBeRejected ==
    \/ instanceState # "stopped"
    \/ variant = "explicit" /\ instanceZone # availabilityZone
    \/ SourceId \notin DOMAIN volumes
    \/ OtherId \in DOMAIN volumes
    \/ volumes[SourceId].AvailabilityZone # instanceZone
    \/ volumes[SourceId].VolumeType # "standard"
    \/ omitAttachments
    \/ desiredSizeGB < volumes[SourceId].Size

----------------------------------------------------------------------------
(* C1: the mutating calls are issued in the order detach-volume,            *)
(* create-snapshot, create-volume, attach-volume, and each one only after   *)
(* the previous stage's poll has observed its target state: the source      *)
(* volume 'available', the snapshot 'completed', the new volume 'available'.*)
C1_OrderedAndGated ==
    /\ Len(calls) <= Len(PipelineOrder)
    /\ \A i \in 1..Len(calls) : calls[i].op = PipelineOrder[i]
    /\ Len(calls) >= 2 => <<calls[1].VolumeId, "available">> \in observed
    /\ Len(calls) >= 3 => <<SnapId, "completed">> \in observed
    /\ Len(calls) >= 4 => <<calls[4].VolumeId, "available">> \in observed

C1_Witness == Len(calls) = 4 /\ calls[4].op = "attachVolume"

(* C2: when a precondition validator rejects (no stopped instance, more     *)
(* than one or no attached volume, a type other than 'standard', no         *)
(* attachment, a target size below the current size) no mutating call is    *)
(* ever issued in that run.                                                 *)
C2_RejectedRunsMutateNothing ==
    (MustBeRejected \/ error \in ValidationErrors) => calls = <<>>

C2_Witness == pc = "exited" /\ error = "MultipleVolumes" /\ calls = <<>>

(* C3: once a stage has failed, the run ends in Failed with that first      *)
(* error and exit code 1, and no adapter call of any kind is issued any     *)
(* more; when the snapshot poll times out no create-volume call is made.    *)
C3_FailFast ==
    /\ [][error # "none" =>
            /\ calls' = calls
            /\ attempts' = attempts
            /\ error' = error
            /\ pc' = "exited"
            /\ exitCode' = FailureExitCode]_vars
    /\ [](error = "Timeout" /\ message = SnapId => ~Issued("createVolume"))

C3_Witness == pc = "exited" /\ error = "Timeout" /\ message = SnapId

(* C4: in both variants the process exits with code 0 exactly when the run  *)
(* succeeded (the attach poll saw the new volume 'in-use') and with code 1  *)
(* exactly when some stage failed.                                          *)
C4_ExitCodeMatchesOutcome ==
    pc = "exited" =>
        /\ exitCode = 0 <=> Succeeded
        /\ exitCode = 1 <=> error \in StageErrors

(* C5: the device passed to attach-volume equals the device of the source   *)
(* volume's first attachment read during validation, and the device in the  *)
(* context is never changed afterwards.                                     *)
C5_DevicePathRoundTrip ==
    /\ [][pc = "getSingleVolumeAttachedTo" /\ pc' = "checkVolumeSizeSmallerThan"
            => ctx'.device = volumes[SourceId].Attachments[1].Device]_vars
    /\ [][ctx.device # "-" => ctx'.device = ctx.device]_vars
    /\ [](\A i \in 1..Len(calls) :
             calls[i].op = "attachVolume" => calls[i].Device = ctx.device)

C5_Witness ==
    /\ Issued("attachVolume")
    /\ calls[4].Device = "/dev/xvda1"
    /\ volumes[SourceId].Attachments = <<>>

(* C6: whenever the target size is strictly less than the current volume    *)
(* size the run is rejected before detach-volume is called, and the size    *)
(* check itself answers with the invalid-size error.                        *)
C6_SmallerTargetRejected ==
    /\ [][pc = "checkVolumeSizeSmallerThan" /\ desiredSizeGB < ctx.volume.Size
            => error' = "InvalidSize"]_vars
    /\ []((SourceId \in DOMAIN volumes /\ desiredSizeGB < volumes[SourceId].Size)
            => /\ calls = <<>>
               /\ pc \in ValidationStages \cup {"onRejected", "exited"}
               /\ pc = "exited" => exitCode = 1)

C6_Witness == pc = "exited" /\ error = "InvalidSize" /\ desiredSizeGB < ctx.volume.Size

(* C7: whenever create-volume is issued, the requested size is strictly     *)
(* bigger than the size of the source volume.                               *)
C7_NewVolumeStrictlyBigger ==
    \A i \in 1..Len(calls) :
        calls[i].op = "createVolume" => calls[i].Size > volumes[SourceId].Size

(* C8: the create-volume request carries the id of the snapshot that was    *)
(* observed 'completed', the requested target size, and the availability    *)
(* zone of the source volume, which is the zone the stopped-instance check  *)
(* returned.                                                                *)
C8_CreateVolumeRequest ==
    \A i \in 1..Len(calls) :
        calls[i].op = "createVolume" =>
            /\ calls[i].SnapshotId \in DOMAIN snapshots
            /\ snapshots[calls[i].SnapshotId].State = "completed"
            /\ snapshots[calls[i].SnapshotId].VolumeId = SourceId
            /\ <<calls[i].SnapshotId, "completed">> \in observed
            /\ calls[i].Size = desiredSizeGB
            /\ calls[i].AvailabilityZone = volumes[SourceId].AvailabilityZone
            /\ calls[i].AvailabilityZone = instance.availabilityZone
            /\ calls[i].AvailabilityZone = instanceZone

C8_Witness ==
    /\ Issued("createVolume")
    /\ variant = "inferred"
    /\ calls[3].AvailabilityZone = "zb"
    /\ calls[3].Size = MaxSize

(* C9: no run, successful or failed, issues a call that starts, stops or    *)
(* modifies the instance or deletes a volume or snapshot: the instance's    *)
(* power state and placement never change, and no volume or snapshot        *)
(* disappears, so the source volume still exists at the end of the run.     *)
C9_InstanceAndResourcesKept ==
    /\ [][/\ instanceState' = instanceState
          /\ instanceZone' = instanceZone
          /\ DOMAIN volumes \subseteq DOMAIN volumes'
          /\ DOMAIN snapshots \subseteq DOMAIN snapshots']_vars
    /\ [](\A i \in 1..Len(calls) :
             calls[i].op \in {"detachVolume", "createSnapshot", "createVolume",
                              "attachVolume"})

C9_Witness ==
    /\ pc = "exited" /\ exitCode = 0
    /\ instanceState = "stopped"
    /\ SourceId \in DOMAIN volumes /\ NewId \in DOMAIN volumes

(* C10 as stated: a poll whose probe never succeeds raises the timeout      *)
(* within timeoutMs plus one inter-poll delay of its first probe.           *)
C10_TimeoutWithinOneDelay ==
    error = "Timeout" => lastElapsed <= timeoutMs + POLL_DELAY

(* C10 as amended: the elapsed time is measured from the first probe on     *)
(* every retry; a failed probe whose elapsed time exceeds timeoutMs raises  *)
(* the timeout and is never followed by another wait, and the probe before  *)
(* it was within the budget, so the timeout is raised within timeoutMs plus *)
(* one inter-poll delay plus the time the last probe took to answer.        *)
C10_TimeoutBound ==
    /\ phase \in {"probe", "delay"} => startTime = firstProbeAt
    /\ phase = "delay" => lastElapsed <= timeoutMs /\ lastElapsed = clock - firstProbeAt
    /\ phase = "probe" => clock - firstProbeAt <= timeoutMs + POLL_DELAY
    /\ error = "Timeout" =>
          /\ lastElapsed = clock - firstProbeAt
          /\ lastElapsed > timeoutMs
          /\ lastElapsed <= timeoutMs + POLL_DELAY + Lag

C10_Witness ==
    /\ error = "Timeout"
    /\ attempts > 1
    /\ lastElapsed = timeoutMs + POLL_DELAY + Lag

----------------------------------------------------------------------------
(* C11: when the probe of a poll first reports success on attempt k, exactly *)
(* k probes have been invoked: the first when the poll starts, with no delay *)
(* before it, each later one a full inter-poll delay after the answer before *)
(* it, every one before the k-th having answered without success; and the   *)
(* poll hands the stage the answer of attempt k as the probe gave it.        *)
PollSucceeds == phase = "probe" /\ phase' = "call" /\ error' = "none"

C11_ProbeCountAndResult ==
    /\ [](phase = "probe" => attempts = failed + 1)
    /\ [](phase = "delay" => attempts = failed)
    /\ [](phase = "probe" /\ attempts = 1 => clock = firstProbeAt)
    /\ [](phase \in {"probe", "delay"} =>
              clock - firstProbeAt >= (attempts - 1) * POLL_DELAY)
    /\ [][PollSucceeds =>
              /\ attempts' = attempts
              /\ failed' = attempts - 1
              /\ outstanding' = 0
              /\ pc = "resizeVolume" =>
                     snapshot' = Head(describeSnapshotsById(message))
              /\ pc \in {"createVolumeFromSnapshot", "attachToInstance"} =>
                     ctx'.volume = Head(describeVolumesById(message))
              /\ <<message, Probe(pc, message).result.State>> \in observed']_vars

C11_Witness ==
    /\ pc = "createVolumeFromSnapshot"
    /\ phase = "call"
    /\ error = "none"
    /\ attempts = 3
    /\ failed = 2
    /\ snapshot.State = "completed"
    /\ lastElapsed >= 2 * POLL_DELAY

----------------------------------------------------------------------------
(* C12: run against the bundled stub with a stopped instance, one 8 GB      *)
(* 'standard' volume attached at a device path and a target of 25 GB, the   *)
(* pipeline succeeds and the final volume it reports has size 25 GB, is     *)
(* attached at the source's device path and lies in the source's zone.      *)
C12_ScenarioA ==
    (stub.on /\ desiredSizeGB = StubCreatedSize /\ pc = "exited") =>
        /\ Succeeded
        /\ ctx.volume.VolumeId = NewId
        /\ ctx.volume.Size = desiredSizeGB
        /\ ctx.device = StubSourceVolume.Attachments[1].Device
        /\ ctx.volume.Attachments # <<>>
        /\ ctx.volume.Attachments[1].Device = StubSourceVolume.Attachments[1].Device
        /\ ctx.volume.AvailabilityZone = StubSourceVolume.AvailabilityZone

----------------------------------------------------------------------------
(* C13: the single-volume check decides in a fixed order.  More than one    *)
(* attached volume is the multiple-volumes error whatever the volumes are;  *)
(* none is the no-volume error; a sole volume whose type is not 'standard'  *)
(* is the unsupported-type error whatever its attachments; a sole standard  *)
(* volume reported without attachments is the no-attachment error; only     *)
(* otherwise the volume is accepted, with the device of its first           *)
(* attachment.                                                              *)
SingleVolumeAnswered ==
    pc = "getSingleVolumeAttachedTo" /\ pc' # pc /\ ~adapterFailed'

C13_SingleVolumePrecedence ==
    [][SingleVolumeAnswered =>
         LET Volumes == describeVolumesByFilter(instance.instanceId,
                                                instance.availabilityZone)
             n == Len(Volumes)
         IN  /\ n > 1 => error' = "MultipleVolumes"
             /\ n = 0 => error' = "NoVolume"
             /\ n = 1 /\ Volumes[1].VolumeType # "standard" =>
                    error' = "UnsupportedType"
             /\ n = 1 /\ Volumes[1].VolumeType = "standard"
                      /\ Len(Volumes[1].Attachments) = 0 =>
                    error' = "NoAttachment"
             /\ n = 1 /\ Volumes[1].VolumeType = "standard"
                      /\ Len(Volumes[1].Attachments) > 0 =>
                    /\ error' = "none"
                    /\ pc' = "checkVolumeSizeSmallerThan"
                    /\ ctx' = [volume |-> Volumes[1],
                               device |-> Volumes[1].Attachments[1].Device]
             /\ error' # "none" => pc' = "onRejected" /\ ctx' = ctx]_vars

C13_Witness ==
    /\ error = "UnsupportedType"
    /\ omitAttachments
    /\ SourceId \in DOMAIN volumes
    /\ Len(volumes[SourceId].Attachments) = 2
    /\ pc = "exited"

----------------------------------------------------------------------------
(* C14: a stage fails with a timeout only on a probe that answered without  *)
(* success and whose elapsed time, counted from the stage's first probe, is *)
(* more than the stage's budget: 60 s for the detach poll, 900 s for the    *)
(* snapshot poll, 60 s for the poll on the new volume, 120 s for the attach *)
(* poll.  While the elapsed time is within the budget the poll goes on.     *)
StageBudgetMs ==
    CASE pc = "detachVolumeFrom" -> 60 * 1000
      [] pc = "resizeVolume" -> 900 * 1000
      [] pc = "createVolumeFromSnapshot" -> 60 * 1000
      [] pc = "attachToInstance" -> 120 * 1000
      [] OTHER -> 0

TimeoutRaised == error = "none" /\ error' = "Timeout"

C14_NoTimeoutWithinBudget ==
    /\ [](phase \in {"probe", "delay"} => timeoutMs = StageBudgetMs)
    /\ [](phase = "delay" => lastElapsed <= StageBudgetMs)
    /\ [][TimeoutRaised =>
              /\ phase = "probe"
              /\ ~Probe(pc, message).success
              /\ failed' = failed + 1
              /\ clock' - firstProbeAt > StageBudgetMs
              /\ lastElapsed' = clock' - firstProbeAt]_vars
    /\ [][(phase = "probe" /\ ~adapterFailed' /\ error' # "TypeError"
             /\ clock' - firstProbeAt <= StageBudgetMs) =>
              error' = "none"]_vars

C14_Witness ==
    /\ error = "Timeout"
    /\ Len(calls) = 4
    /\ lastElapsed > 120 * 1000
    /\ lastElapsed <= 120 * 1000 + POLL_DELAY
    /\ failed = attempts

----------------------------------------------------------------------------
(* C15: when an adapter call rejects, be it the mutating call of a stage,   *)
(* a validator's query or a probe inside a poll, the run fails at once with *)
(* that error: no probe is invoked after it, no inter-poll delay is waited, *)
(* the call is not issued again, and the process exits with the failure     *)
(* code.                                                                    *)
C15_AdapterFailurePropagates ==
    /\ [](adapterFailed =>
              /\ error = "AdapterError"
              /\ pc \in {"onRejected", "exited"}
              /\ phase = "call"
              /\ outstanding = 0)
    /\ [](adapterFailed /\ pc = "exited" => exitCode = FailureExitCode)
    /\ [][~adapterFailed /\ adapterFailed' =>
              /\ attempts' = attempts
              /\ clock' < clock + POLL_DELAY
              /\ ctx' = ctx
              /\ observed' = observed]_vars
    /\ [][adapterFailed =>
              /\ pc = "onRejected" /\ pc' = "exited"
              /\ adapterFailed'
              /\ error' = error
              /\ calls' = calls
              /\ attempts' = attempts
              /\ clock' = clock
              /\ remoteVars' = remoteVars]_vars

C15_Witness ==
    /\ adapterFailed
    /\ pc = "exited"
    /\ exitCode = FailureExitCode
    /\ message = SnapId
    /\ Len(calls) = 2
    /\ attempts = 2
    /\ failed = 1

----------------------------------------------------------------------------
(* C16: in one run each of detach-volume, create-snapshot, create-volume    *)
(* and attach-volume is issued at most once, however often the polls        *)
(* retry; so a run creates at most one snapshot and one new volume.         *)
TimesIssued(op) == Cardinality({i \in 1..Len(calls) : calls[i].op = op})

C16_EachMutationAtMostOnce ==
    /\ \A i \in 1..Len(calls) :
           calls[i].op \in {"detachVolume", "createSnapshot", "createVolume",
                            "attachVolume"}
    /\ \A op \in {"detachVolume", "createSnapshot", "createVolume", "attachVolume"} :
           TimesIssued(op) <= 1
    /\ Cardinality(DOMAIN snapshots) <= TimesIssued("createSnapshot")
    /\ Cardinality(DOMAIN volumes \ {SourceId, OtherId}) <= TimesIssued("createVolume")

C16_Witness ==
    /\ Len(calls) = 4
    /\ Succeeded
    /\ attempts >= 3
    /\ TimesIssued("attachVolume") = 1
    /\ Cardinality(DOMAIN snapshots) = 1

----------------------------------------------------------------------------
(* C17: the run never has more than one adapter call outstanding.  A probe  *)
(* is invoked only when no probe is pending, and a retry only after the     *)
(* probe before it has answered and a full inter-poll delay has passed; a   *)
(* stage's mutating call is issued only when no probe is pending, so the    *)
(* polls of two stages never overlap.                                       *)
ProbeInvoked == outstanding' > outstanding

C17_OneCallAtATime ==
    /\ [](outstanding <= 1)
    /\ [](outstanding = 1 <=> phase = "probe")
    /\ [](phase # "call" => pc \in {"detachVolumeFrom", "resizeVolume",
                                    "createVolumeFromSnapshot", "attachToInstance"})
    /\ [][ProbeInvoked =>
              /\ outstanding = 0
              /\ phase \in {"call", "delay"}
              /\ phase = "delay" => /\ clock' >= clock + POLL_DELAY
                                    /\ failed = attempts
                                    /\ pc' = pc /\ message' = message
              /\ phase = "call" => calls' # calls]_vars
    /\ [][calls' # calls => outstanding = 0 /\ phase = "call"]_vars

C17_Witness ==
    /\ pc = "attachToInstance"
    /\ phase = "probe"
    /\ outstanding = 1
    /\ attempts = 3
    /\ failed = 2
    /\ clock - firstProbeAt >= 2 * POLL_DELAY

----------------------------------------------------------------------------
(* C18: if every adapter call is answered and time passes, a run ends: it   *)
(* reaches a terminal outcome, success (exit code 0) or failure (exit code  *)
(* 1), reports it once, never changes it, and does nothing afterwards.      *)
C18_TerminatesOnce ==
    /\ <>(pc = "exited")
    /\ [](pc = "exited" <=> exitCode # -1)
    /\ [](pc = "exited" => exitCode \in {SuccessExitCode, FailureExitCode})
    /\ [](exitCode = SuccessExitCode => error = "none" /\ Succeeded)
    /\ [](exitCode = FailureExitCode => error # "none")
    /\ [][pc # "exited"]_vars

C18_Witness ==
    /\ pc = "exited"
    /\ exitCode = FailureExitCode
    /\ error = "Timeout"
    /\ message = SnapId
    /\ attempts > 2

----------------------------------------------------------------------------
(* C19: a probe that answers with success ends the poll with its result     *)
(* however much time has passed, also when the elapsed time is already      *)
(* above the budget; the budget is looked at only after a probe that        *)
(* answered without success.                                                *)
ProbeAnswered == phase = "probe" /\ outstanding' < outstanding /\ ~adapterFailed'

C19_SuccessHonouredPastBudget ==
    /\ [][ProbeAnswered /\ Probe(pc, message).success =>
              /\ error' = "none"
              /\ pc' = NextStage(pc)
              /\ phase' = "call"
              /\ lastElapsed' = clock' - firstProbeAt
              /\ <<message, DesiredState(pc)>> \in observed']_vars
    /\ [][ProbeAnswered /\ error' = "Timeout" => ~Probe(pc, message).success]_vars

C19_Witness ==
    /\ pc = "resizeVolume"
    /\ phase = "call"
    /\ error = "none"
    /\ <<SourceId, "available">> \in observed
    /\ lastElapsed > DetachTimeoutMs
    /\ attempts > 1

----------------------------------------------------------------------------
(* C20: the source volume and the new volume are never attached to the      *)
(* instance at the same time.  The attach request, which is for the new     *)
(* volume, is issued only after the detach request and after a poll saw the *)
(* source volume 'available'; the script never asks to attach the source    *)
(* volume, which stays detached from then on.                               *)
C20_NeverBothAttached ==
    /\ [](NewId \in DOMAIN volumes =>
              ~(AttachedTo(SourceId, targetInstanceId)
                  /\ AttachedTo(NewId, targetInstanceId)))
    /\ [](\A i \in 1..Len(calls) :
              calls[i].op = "attachVolume" =>
                  /\ calls[i].VolumeId = NewId
                  /\ calls[i].VolumeId # SourceId
                  /\ \E j \in 1..(i - 1) : /\ calls[j].op = "detachVolume"
                                           /\ calls[j].VolumeId = SourceId
                  /\ <<SourceId, "available">> \in observed
                  /\ volumes[SourceId].Attachments = <<>>)
    /\ [][(SourceId \in DOMAIN volumes /\ volumes[SourceId].Attachments = <<>>) =>
              volumes'[SourceId].Attachments = <<>>]_vars

C20_Witness ==
    /\ pc = "exited"
    /\ Succeeded
    /\ AttachedTo(NewId, targetInstanceId)
    /\ volumes[SourceId].State = "available"
    /\ ~AttachedTo(SourceId, targetInstanceId)

----------------------------------------------------------------------------
(* C21: the workflow cannot be repeated on its own result.  The new volume  *)
(* is always requested with type 'gp2'; so when the script is run again on  *)
(* the same instance after a run that succeeded, the only volume attached   *)
(* is the new one, the single-volume check rejects it with the              *)
(* unsupported-type error, and the second run issues no mutating call and   *)
(* changes nothing remotely.                                                *)
C21_NotRepeatable ==
    /\ [](\A i \in 1..Len(calls) :
              calls[i].op = "createVolume" => calls[i].VolumeType = "gp2")
    /\ [](Succeeded => volumes[NewId].VolumeType = "gp2")
    /\ [](run = 2 =>
              /\ calls = <<>>
              /\ phase = "call"
              /\ pc \in {"getStoppedInstance", "getSingleVolumeAttachedTo",
                         "onRejected", "exited"}
              /\ error \in {"none", "UnsupportedType", "AdapterError"}
              /\ error = "AdapterError" <=> adapterFailed
              /\ pc = "exited" => exitCode = FailureExitCode)
    /\ [][run = 2 /\ SingleVolumeAnswered =>
              /\ describeVolumesByFilter(instance.instanceId,
                                         instance.availabilityZone)
                   = <<Reported(NewId)>>
              /\ error' = "UnsupportedType"]_vars
    /\ [][run = 2 => remoteVars' = remoteVars]_vars

C21_Witness ==
    /\ run = 2
    /\ pc = "exited"
    /\ error = "UnsupportedType"
    /\ exitCode = FailureExitCode
    /\ calls = <<>>
    /\ AttachedTo(NewId, targetInstanceId)

====
